---- MODULE Spec2Model ----
(***************************************************************************)
(* Model of the procedural noise generator of src/features/NoiseGenerator  *)
(* .tsx: the seeded generator, the White / Value / Gradient kernels, the   *)
(* fractal compositor, the pixel loop of generateNoiseImage and the React  *)
(* component state handled by handleGenerateNoise.                         *)
(*                                                                         *)
(* Numbers.  The code computes in IEEE doubles.  A number is modelled as a *)
(* record [n, d]: d > 0 is the exact rational n/d in lowest terms, d = 0   *)
(* is NaN (n = 0), +Infinity (n = 1) or -Infinity (n = -1), and d = -1 is  *)
(* the JavaScript value undefined.  Arithmetic is exact as long as the     *)
(* result fits the model checker's 32-bit integers; an operation whose     *)
(* exact result would not fit first rounds its operands down to multiples  *)
(* of 1/Q (the model's stand-in for the rounding of doubles).              *)
(***************************************************************************)
EXTENDS Integers, Sequences, FiniteSets, TLC

VARIABLES
  params,             \* the fourteen useState parameters of NoiseGenerator
  generatedImageUrl,  \* useState: data URL of the displayed image, or None
  isLoading,          \* useState
  error,              \* useState: message, or Null
  pending,            \* the settled promise handleGenerateNoise awaits, or None
  last,               \* observation of the latest handleGenerateNoise or handleReset call
  heap,               \* final state s of the generator closures of the latest call
  initialMountSeedRef, \* useRef: the seed drawn when the module was loaded
  steps,              \* number of caller operations so far (bounded)
  gens,               \* live createSeededRandom closures (generator probe)
  whiteK,             \* a live getWhiteNoiseFn closure (kernel probe)
  valueK,             \* a live getBasicValueNoiseFn closure (kernel probe)
  fractalK            \* a live applyFractalNoise evaluation (compositor probe)

vars == <<params, generatedImageUrl, isLoading, error, pending, last, heap,
          initialMountSeedRef, steps, gens, whiteK, valueK, fractalK>>
uiVars == <<params, generatedImageUrl, isLoading, error, pending, last, heap,
            initialMountSeedRef, steps>>

Null == "null"
None == [kind |-> "none"]

-----------------------------------------------------------------------------
(* Numbers *)

MaxInt == 2147483646 + 1
Q == 2 * 2048

AbsI(i) == IF i < 0 THEN -i ELSE i
MinI(i, j) == IF i < j THEN i ELSE j
MaxI(i, j) == IF i > j THEN i ELSE j

RECURSIVE Gcd(_, _)
Gcd(a, b) == IF b = 0 THEN a ELSE Gcd(b, a % b)

RatG(n, d, g) == [n |-> n \div g, d |-> d \div g]
Rat(n, d) == RatG(n, d, Gcd(AbsI(n), d))
Num(i) == [n |-> i, d |-> 1]
NaN == [n |-> 0, d |-> 0]
PosInf == [n |-> 1, d |-> 0]
NegInf == [n |-> -1, d |-> 0]
Undefined == [n |-> 0, d |-> -1]

IsFinite(a) == a.d > 0
IsNaN(a) == a.d < 0 \/ (a.d = 0 /\ a.n = 0)
Sign(a) == IF a.n > 0 THEN 1 ELSE IF a.n < 0 THEN -1 ELSE 0

MulFits(i, j) == i = 0 \/ j = 0 \/ AbsI(i) <= MaxInt \div AbsI(j)
HalfFits(i, j) == i = 0 \/ j = 0 \/ AbsI(i) <= (MaxInt \div 2) \div AbsI(j)

\* the fraction of a finite number, rounded down to a multiple of 1/Q, in
\* units of 1/Q (sh scales the remainder so that the product fits)
FracBy(a, sh) == MinI((((a.n % a.d) \div sh) * Q) \div (a.d \div sh), Q)
Frac(a) == FracBy(a, (a.d \div (MaxInt \div Q)) + 1)

\* a finite number rounded down to a multiple of 1/Q
Quantize(a) == Rat((a.n \div a.d) * Q + Frac(a), Q)

AddExactG(a, b, g) ==
  Rat(a.n * (b.d \div g) + b.n * (a.d \div g), a.d * (b.d \div g))

AddFitsG(a, b, g) ==
  /\ MulFits(a.d, b.d \div g)
  /\ HalfFits(a.n, b.d \div g)
  /\ HalfFits(b.n, a.d \div g)

AddExact(a, b) == AddExactG(a, b, Gcd(a.d, b.d))

AddFinite(a, b, g) ==
  IF AddFitsG(a, b, g) THEN AddExactG(a, b, g)
  ELSE AddExact(Quantize(a), Quantize(b))

\* a + b
Add(a, b) ==
  IF IsNaN(a) \/ IsNaN(b) THEN NaN
  ELSE IF a.d = 0 /\ b.d = 0 THEN (IF a.n = b.n THEN a ELSE NaN)
  ELSE IF a.d = 0 THEN a
  ELSE IF b.d = 0 THEN b
  ELSE AddFinite(a, b, Gcd(a.d, b.d))

Neg(a) == IF a.d < 0 THEN NaN ELSE [n |-> -a.n, d |-> a.d]
Sub(a, b) == Add(a, Neg(b))

MulExactG(a, b, g1, g2) ==
  [n |-> (a.n \div g1) * (b.n \div g2), d |-> (a.d \div g2) * (b.d \div g1)]

MulFitsG(a, b, g1, g2) ==
  /\ MulFits(a.n \div g1, b.n \div g2)
  /\ MulFits(a.d \div g2, b.d \div g1)

MulExact(a, b) == MulExactG(a, b, Gcd(AbsI(a.n), b.d), Gcd(AbsI(b.n), a.d))

MulFinite(a, b, g1, g2) ==
  IF MulFitsG(a, b, g1, g2) THEN MulExactG(a, b, g1, g2)
  ELSE MulExact(Quantize(a), Quantize(b))

\* a * b
Mul(a, b) ==
  IF IsNaN(a) \/ IsNaN(b) THEN NaN
  ELSE IF a.d = 0 \/ b.d = 0
    THEN (IF a.n = 0 \/ b.n = 0 THEN NaN
          ELSE IF Sign(a) = Sign(b) THEN PosInf ELSE NegInf)
  ELSE MulFinite(a, b, Gcd(AbsI(a.n), b.d), Gcd(AbsI(b.n), a.d))

\* 1 / a  (the sign of a zero is not tracked: 1/0 is +Infinity)
Inv(a) ==
  IF IsNaN(a) THEN NaN
  ELSE IF a.d = 0 THEN Num(0)
  ELSE IF a.n = 0 THEN PosInf
  ELSE IF a.n > 0 THEN [n |-> a.d, d |-> a.n]
  ELSE [n |-> -a.d, d |-> -a.n]

\* a / b
Div(a, b) ==
  IF IsNaN(a) \/ IsNaN(b) THEN NaN
  ELSE IF b.d > 0 /\ b.n = 0
    THEN (IF a.n = 0 THEN NaN ELSE IF a.n > 0 THEN PosInf ELSE NegInf)
  ELSE Mul(a, Inv(b))

\* a < b; false when either side is NaN, as in JavaScript
Lt(a, b) ==
  IF IsNaN(a) \/ IsNaN(b) THEN FALSE
  ELSE IF a.d = 0 THEN a.n < 0 /\ ~(b.d = 0 /\ b.n < 0)
  ELSE IF b.d = 0 THEN b.n > 0
  ELSE IF MulFits(a.n, b.d) /\ MulFits(b.n, a.d) THEN a.n * b.d < b.n * a.d
  ELSE \/ (a.n \div a.d) < (b.n \div b.d)
       \/ (a.n \div a.d) = (b.n \div b.d) /\ Frac(a) < Frac(b)

Le(a, b) == ~IsNaN(a) /\ ~IsNaN(b) /\ ~Lt(b, a)

\* Math.abs, Math.min, Math.max, Math.floor
MathAbs(a) == IF IsNaN(a) THEN NaN ELSE [n |-> AbsI(a.n), d |-> a.d]
MathMin(a, b) == IF IsNaN(a) \/ IsNaN(b) THEN NaN ELSE IF Lt(b, a) THEN b ELSE a
MathMax(a, b) == IF IsNaN(a) \/ IsNaN(b) THEN NaN ELSE IF Lt(a, b) THEN b ELSE a
MathFloor(a) == IF a.d > 0 THEN Num(a.n \div a.d) ELSE IF a.d < 0 THEN NaN ELSE a

InUnit(a) == IsFinite(a) /\ a.n >= 0 /\ a.n <= a.d          \* a in [0, 1]
InSigned(a) == IsFinite(a) /\ -a.d <= a.n /\ a.n <= a.d     \* a in [-1, 1]

-----------------------------------------------------------------------------
(* createSeededRandom *)

Multiplier == 9301
Increment == 49297
Modulus == 233280

\* LcgMath(s) is (s * 9301 + 49297) modulo 233280 in the mathematical sense,
\* and LcgStep(s) one step of  s = (s * 9301 + 49297) % 233280  as JavaScript
\* computes it on an integer s.  The product
\* is exact in a double (below 2^53); here it is taken modulo 233280 in two
\* factors (9301 = 93 * 100 + 1) so that no intermediate exceeds 32 bits.  The
\* JavaScript % keeps the sign of the dividend: a negative dividend gives a
\* result in (-233280, 0].
LcgMath(s) ==
  LET r == s % Modulus
      hi == (((r * (Multiplier \div 100)) % Modulus) * 100) % Modulus
      lo == r * (Multiplier % 100)
  IN  (hi + lo + Increment) % Modulus

LcgStepKeepsQuotient(s) == LcgMath(s) + (s \div Modulus) * Modulus

LcgStepNoIncrement(s) == (LcgMath(s) + Modulus - Increment) % Modulus

LcgStep(s) ==
  LET t == LcgMath(s)
      negative == s < 0 /\ -s > Increment \div Multiplier
  IN  IF negative /\ t # 0 THEN t - Modulus ELSE t

\* the closure state after k calls, starting from state s
RECURSIVE Iterate(_, _)
Iterate(s, k) == IF k = 0 THEN s ELSE Iterate(LcgStep(s), k - 1)

\* the value a call returns when it leaves the closure in state s
RandValue(s) == Rat(s, Modulus)

\* createSeededRandom(seed): the closure's initial state.  `prior` is the state
\* left behind by closures created earlier; the code reads none of it.
createSeededRandomStale(seed, prior) == IF prior = None THEN seed ELSE prior.s

createSeededRandom(seed, prior) == seed

\* the closure states after each of n successive calls, starting from state s
\* (built by halves: the second half continues from the last state of the first)
RECURSIVE Draws(_, _)
Draws(s, n) ==
  IF n <= 0 THEN <<>>
  ELSE IF n = 1 THEN <<LcgStep(s)>>
  ELSE LET h == n \div 2
           a == Draws(s, h)
       IN  a \o Draws(a[h], n - h)

FinalState(s, ds) == IF Len(ds) = 0 THEN s ELSE ds[Len(ds)]

-----------------------------------------------------------------------------
(* The gradient kernel.  getSimplexNoiseFn hands a createSeededRandom closure
   to createNoise2D of the simplex-noise package, whose source is not part of
   the repository.  The package is represented by a small lattice gradient
   noise with the properties the documentation gives it: the permutation
   table is shuffled with one draw per entry at construction, the result is a
   pure function of that table and (x, y), it lies in [-1, 1] and it is 0 at
   the origin. *)

PermSize == 4
Grad2 == << <<1, 1>>, <<-1, 1>>, <<1, -1>>, <<-1, -1>> >>

\* ~~(rand * k) for the draw that left the closure in state s
TruncScaled(s, k) == IF s >= 0 THEN (s * k) \div Modulus ELSE -(((-s) * k) \div Modulus)

\* one step of the shuffle: entries i and r change places (an r below 0 is
\* outside the typed array: the read gives undefined, stored as 0)
ShuffleSwap(p, i, r) ==
  IF r < 0 THEN [p EXCEPT ![i + 1] = 0]
  ELSE [p EXCEPT ![i + 1] = p[r + 1], ![r + 1] = p[i + 1]]

RECURSIVE Shuffle(_, _, _)
Shuffle(p, i, ds) ==
  IF i > PermSize - 2 THEN p
  ELSE Shuffle(ShuffleSwap(p, i, i + TruncScaled(ds[i + 1], PermSize - i)), i + 1, ds)

buildPermutationTable(ds) == Shuffle([i \in 1..PermSize |-> i - 1], 0, ds)

\* the gradient's contribution at offset (dx, dy) from its lattice point
GradDot(g, dx, dy) == Div(Add(Mul(Num(g[1]), dx), Mul(Num(g[2]), dy)), Num(2))

LatticeHash(perm, i, j) ==
  perm[(((i % PermSize) + perm[(j % PermSize) + 1]) % PermSize) + 1] % 4

noise2DAt(perm, x, y, i, j) ==
  GradDot(Grad2[LatticeHash(perm, i, j) + 1], Sub(x, Num(i)), Sub(y, Num(j)))

noise2D(perm, x, y) == noise2DAt(perm, x, y, x.n \div x.d, y.n \div y.d)

SimplexKernel(s0, ds) ==
  [type |-> "simplex", perm |-> buildPermutationTable(ds), s |-> FinalState(s0, ds)]

getSimplexNoiseFn(seed, prior) ==
  SimplexKernel(createSeededRandom(seed, prior),
                Draws(createSeededRandom(seed, prior), PermSize - 1))

-----------------------------------------------------------------------------
(* getWhiteNoiseFn *)

WhiteKernel(s0, ds, width, height) ==
  [type |-> "white", width |-> width, height |-> height,
   noiseMap |-> [i \in 1..(width * height) |->
                   Sub(Mul(RandValue(ds[i]), Num(2)), Num(1))],
   s |-> FinalState(s0, ds)]

getWhiteNoiseFn(seed, width, height, prior) ==
  WhiteKernel(createSeededRandom(seed, prior),
              Draws(createSeededRandom(seed, prior), width * height), width, height)

\* index = pixelY * width + pixelX of the closure's evaluate(x, y)
WhiteIndex(k, x, y) ==
  Add(Mul(MathFloor(Mul(y, Num(k.height))), Num(k.width)),
      MathFloor(Mul(x, Num(k.width))))

\* the bounds check and the read of noiseMap[index]
WhiteAtUnchecked(k, index) ==
  IF IsFinite(index) /\ 0 <= index.n /\ index.n < Len(k.noiseMap)
    THEN k.noiseMap[index.n + 1]
    ELSE Undefined

WhiteAt(k, index) ==
  IF Lt(index, Num(0)) \/ Le(Num(Len(k.noiseMap)), index) THEN Num(0)
  ELSE IF IsFinite(index) THEN k.noiseMap[index.n + 1]
  ELSE Undefined

WhiteEvaluate(k, x, y) == WhiteAt(k, WhiteIndex(k, x, y))

-----------------------------------------------------------------------------
(* getBasicValueNoiseFn *)

DefaultGridSize == 16

\* a % m as JavaScript computes it on integers: the sign of the dividend
JsRem(a, m) == IF a >= 0 THEN a % m ELSE -((-a) % m)

\* values[i][j] is draw number i * (gridSize + 1) + j + 1
ValueKernel(s0, ds, gridSize) ==
  [type |-> "value", gridSize |-> gridSize, values |-> ds, s |-> FinalState(s0, ds)]

getBasicValueNoiseFn(seed, gridSize, prior) ==
  ValueKernel(createSeededRandom(seed, prior),
              Draws(createSeededRandom(seed, prior), (gridSize + 1) * (gridSize + 1)),
              gridSize)

\* values[i] is an array exactly for i in 0..gridSize
RowDefined(k, i) == 0 <= i /\ i <= k.gridSize

\* values[i][j] for a defined row i: a draw, or undefined
GridValue(k, i, j) ==
  IF 0 <= j /\ j <= k.gridSize THEN RandValue(k.values[i * (k.gridSize + 1) + j + 1])
  ELSE Undefined

\* 3u^2 - 2u^3
Cubic(u) == Mul(Mul(u, u), Sub(Num(3), Mul(Num(2), u)))

\* (1 - cos(t * pi)) / 2.  Exact where the cosine is rational (t = 0, 1/3,
\* 1/2, 2/3, 1); elsewhere the cubic 3t^2 - 2t^3 on t rounded to 1/64, which
\* is within 0.01 of it, monotone, and has the same range [0, 1].
CosEase(t) ==
  IF ~IsFinite(t) THEN NaN
  ELSE IF t = Num(0) \/ t = Num(1) \/ t = Rat(1, 2) THEN t
  ELSE IF t = Rat(1, 3) THEN Rat(1, 4)
  ELSE IF t = Rat(2, 3) THEN Rat(3, 4)
  ELSE Cubic(Rat((t.n * 64) \div t.d, 64))

\* a * (1 - f) + b * f
Blend(a, b, f) == Add(Mul(a, Sub(Num(1), f)), Mul(b, f))

interpolate(a, b, t) == Blend(a, b, CosEase(t))

\* the wrap applied to a corner index
WrapIndexPeriodic(i, gridSize) == JsRem(i, gridSize)

WrapIndex(i, gridSize) == JsRem(i, gridSize + 1)

\* the four wrapped corner indices for x0 = floor(gx), y0 = floor(gy)
CornersAt(gridSize, x0, y0) ==
  [x0 |-> WrapIndex(x0, gridSize), x1 |-> WrapIndex(x0 + 1, gridSize),
   y0 |-> WrapIndex(y0, gridSize), y1 |-> WrapIndex(y0 + 1, gridSize)]

\* the four wrapped corner indices of evaluate(x, y), x and y finite
ValueCorners(k, x, y) ==
  CornersAt(k.gridSize, MathFloor(Mul(x, Num(k.gridSize))).n,
            MathFloor(Mul(y, Num(k.gridSize))).n)

\* the reads of the four corners and the three interpolations; reading
\* values[i][j] with values[i] undefined throws a TypeError
ValueBlend(k, c, fx, fy) ==
  IF ~RowDefined(k, c.x0) \/ ~RowDefined(k, c.x1)
    THEN [thrown |-> TRUE, v |-> NaN]
    ELSE [thrown |-> FALSE,
          v |-> Sub(Mul(interpolate(
                          interpolate(GridValue(k, c.x0, c.y0), GridValue(k, c.x1, c.y0), fx),
                          interpolate(GridValue(k, c.x0, c.y1), GridValue(k, c.x1, c.y1), fx),
                          fy),
                        Num(2)),
                    Num(1))]

\* evaluate for the grid coordinates gx, gy (values[NaN] is undefined too)
ValueAt(k, gx, gy) ==
  IF ~IsFinite(gx) \/ ~IsFinite(gy) THEN [thrown |-> TRUE, v |-> NaN]
  ELSE ValueBlend(k, CornersAt(k.gridSize, MathFloor(gx).n, MathFloor(gy).n),
                  Sub(gx, MathFloor(gx)), Sub(gy, MathFloor(gy)))

ValueEvaluate(k, x, y) == ValueAt(k, Mul(x, Num(k.gridSize)), Mul(y, Num(k.gridSize)))

-----------------------------------------------------------------------------
(* applyFractalNoise *)

FractalTypes == {"None", "FBM", "Billow", "Ridged", "Turbulence", "IQ"}

\* the switch on fractalType applied to one octave's noiseValue
FractalTransformRidgedSlip(noiseValue, fractalType) ==
  CASE fractalType = "Billow" -> Sub(Mul(MathAbs(noiseValue), Num(2)), Num(1))
    [] fractalType = "Ridged" -> Sub(MathAbs(noiseValue), Num(1))
    [] fractalType = "Turbulence" -> MathAbs(noiseValue)
    [] fractalType = "IQ" ->
         MathMin(Num(1), MathMax(Num(-1),
           Sub(Mul(Div(Num(1), Add(MathAbs(noiseValue), Rat(1, 10))), Rat(2, 10)),
               Rat(5, 10))))
    [] OTHER -> noiseValue

FractalTransform(noiseValue, fractalType) ==
  CASE fractalType = "Billow" -> Sub(Mul(MathAbs(noiseValue), Num(2)), Num(1))
    [] fractalType = "Ridged" -> Sub(Num(1), MathAbs(noiseValue))
    [] fractalType = "Turbulence" -> MathAbs(noiseValue)
    [] fractalType = "IQ" ->
         MathMin(Num(1), MathMax(Num(-1),
           Sub(Mul(Div(Num(1), Add(MathAbs(noiseValue), Rat(1, 10))), Rat(2, 10)),
               Rat(5, 10))))
    [] OTHER -> noiseValue

\* noiseFn(x, y) for the closure k; only the Value kernel can throw
KernelEval(k, x, y) ==
  CASE k.type = "white" -> [thrown |-> FALSE, v |-> WhiteEvaluate(k, x, y)]
    [] k.type = "value" -> ValueEvaluate(k, x, y)
    [] OTHER -> [thrown |-> FALSE, v |-> noise2D(k.perm, x, y)]

\* the for loop over the octaves, from octave i on; c holds the arguments and
\* r is the kernel's result for octave i
RECURSIVE OctaveLoop(_, _, _, _, _)
OctaveStep(c, i, total, currentAmplitude, currentFrequency, r) ==
  IF r.thrown THEN [thrown |-> TRUE, total |-> total, evals |-> i]
  ELSE OctaveLoop(c, i + 1,
         Add(total, Mul(FractalTransform(r.v, c.fractalType), currentAmplitude)),
         Mul(currentAmplitude, c.persistence),
         Mul(currentFrequency, c.lacunarity))

OctaveLoop(c, i, total, currentAmplitude, currentFrequency) ==
  IF i >= c.octaves THEN [thrown |-> FALSE, total |-> total, evals |-> i]
  ELSE OctaveStep(c, i, total, currentAmplitude, currentFrequency,
                  KernelEval(c.noiseFn, Mul(c.x, currentFrequency),
                             Mul(c.y, currentFrequency)))

\* the return expression of applyFractalNoise, bound being 1 / (1 - persistence)
NormalizeByUnit(total, amplitude, bound) == Div(Add(total, Num(1)), Num(2))

NormalizeBy(total, amplitude, bound) ==
  Div(Add(total, Mul(amplitude, bound)), Mul(Mul(Num(2), amplitude), bound))

Normalize(total, amplitude, persistence) ==
  NormalizeBy(total, amplitude, Div(Num(1), Sub(Num(1), persistence)))

FractalResult(r, amplitude, persistence) ==
  IF r.thrown THEN [thrown |-> TRUE, v |-> NaN, evals |-> r.evals]
  ELSE [thrown |-> FALSE, v |-> Normalize(r.total, amplitude, persistence),
        evals |-> r.evals]

applyFractalNoise(noiseFn, x, y, frequency, amplitude, octaves, persistence, lacunarity, fractalType) ==
  FractalResult(OctaveLoop([noiseFn |-> noiseFn, x |-> x, y |-> y, octaves |-> octaves,
                            persistence |-> persistence, lacunarity |-> lacunarity,
                            fractalType |-> fractalType],
                           0, Num(0), amplitude, frequency),
                amplitude, persistence)

-----------------------------------------------------------------------------
(* hexToRgb: a color is a sequence of one-character strings *)

HexDigits == <<"0", "1", "2", "3", "4", "5", "6", "7", "8", "9",
               "a", "b", "c", "d", "e", "f">>
UpperHexDigits == <<"A", "B", "C", "D", "E", "F">>

IsHexDigit(c) ==
  \/ \E i \in 1..Len(HexDigits) : HexDigits[i] = c
  \/ \E i \in 1..Len(UpperHexDigits) : UpperHexDigits[i] = c

HexValue(c) ==
  IF \E i \in 1..Len(HexDigits) : HexDigits[i] = c
    THEN (CHOOSE i \in 1..Len(HexDigits) : HexDigits[i] = c) - 1
    ELSE (CHOOSE i \in 1..Len(UpperHexDigits) : UpperHexDigits[i] = c) + 9

StripHash(hex) == IF Len(hex) > 0 /\ hex[1] = "#" THEN Tail(hex) ELSE hex

AllHex(h) == \A i \in 1..Len(h) : IsHexDigit(h[i])

\* shorthandRegex: "#rgb" or "rgb" becomes "rrggbb"
ExpandShorthand(hex, body) ==
  IF Len(body) = 3 /\ AllHex(body)
    THEN <<body[1], body[1], body[2], body[2], body[3], body[3]>>
    ELSE hex

\* the full-form regex and the three parseInt calls
ParseRgb(digits) ==
  IF Len(digits) = 6 /\ AllHex(digits)
    THEN [kind |-> "rgb",
          r |-> 16 * HexValue(digits[1]) + HexValue(digits[2]),
          g |-> 16 * HexValue(digits[3]) + HexValue(digits[4]),
          b |-> 16 * HexValue(digits[5]) + HexValue(digits[6])]
    ELSE None

hexToRgb(hex) == ParseRgb(StripHash(ExpandShorthand(hex, StripHash(hex))))

-----------------------------------------------------------------------------
(* generateNoiseImage *)

WrapStrength == Rat(5, 100)
WrapScale == Num(5)

\* a value stored in a Uint8ClampedArray element
ToUint8Clamped(a) ==
  IF IsNaN(a) THEN 0
  ELSE IF a.d = 0 THEN (IF a.n > 0 THEN 255 ELSE 0)
  ELSE MaxI(0, MinI(255, a.n \div a.d))

\* Math.floor(bg * (1 - noiseVal) + 255 * noiseVal)
Channel(bg, noiseVal) ==
  MathFloor(Add(Mul(Num(bg), Sub(Num(1), noiseVal)), Mul(Num(255), noiseVal)))

\* domainWrapNoise(nx * 5, ny * 5) * wrapStrength
WarpOffset(perm, nx, ny) ==
  Mul(noise2D(perm, Mul(nx, WrapScale), Mul(ny, WrapScale)), WrapStrength)

WarpedCoordOff(a, wx, wy, nx, ny) == [nx |-> nx, ny |-> ny]

WarpedCoord(a, wx, wy, nx, ny) ==
  IF a.domainWrap
    THEN [nx |-> Add(nx, WarpOffset(wx.perm, nx, ny)),
          ny |-> Add(ny, WarpOffset(wy.perm, nx, ny))]
    ELSE [nx |-> nx, ny |-> ny]

\* the coordinate fed to the noise pipeline for pixel (x, y)
SampleCoord(a, wx, wy, x, y) == WarpedCoord(a, wx, wy, Rat(x, a.width), Rat(y, a.height))

\* the branch for fractalType None: one kernel value, scaled and normalized
NoneResultUnscaled(r, amplitude) ==
  [thrown |-> r.thrown, evals |-> 1,
   v |-> Div(Add(Mul(r.v, amplitude), Num(1)), Num(2))]

NoneResult(r, amplitude) ==
  [thrown |-> r.thrown, evals |-> 1,
   v |-> Div(Add(Mul(r.v, amplitude), amplitude), Mul(Num(2), amplitude))]

\* noiseVal before the clamp, at the sample coordinate c
RawNoiseFractalOnly(a, noiseFn, c) ==
  applyFractalNoise(noiseFn, c.nx, c.ny, a.frequency, a.amplitude, a.octaves,
                    a.persistence, a.lacunarity, a.fractalType)

RawNoise(a, noiseFn, c) ==
  IF a.fractalType = "None"
    THEN NoneResult(KernelEval(noiseFn, Mul(c.nx, a.frequency), Mul(c.ny, a.frequency)),
                    a.amplitude)
    ELSE applyFractalNoise(noiseFn, c.nx, c.ny, a.frequency, a.amplitude, a.octaves,
                           a.persistence, a.lacunarity, a.fractalType)

\* the three color channels as stored in the buffer
Channels(bgRgb, noiseVal) ==
  [ch \in {"r", "g", "b"} |-> ToUint8Clamped(Channel(bgRgb[ch], noiseVal))]

PixelRecord(x, y, c, raw, noiseVal, rgb) ==
  [thrown |-> raw.thrown, x |-> x, y |-> y, nx |-> c.nx, ny |-> c.ny,
   evals |-> raw.evals, noiseVal |-> noiseVal,
   r |-> rgb["r"], g |-> rgb["g"], b |-> rgb["b"], alpha |-> 255]

PixelShade(x, y, c, raw, noiseVal, bgRgb) ==
  PixelRecord(x, y, c, raw, noiseVal, Channels(bgRgb, noiseVal))

\* the final clamp
PixelClamp(x, y, c, raw, bgRgb) ==
  PixelShade(x, y, c, raw, MathMax(Num(0), MathMin(Num(1), raw.v)), bgRgb)

PixelFrom(a, noiseFn, bgRgb, x, y, c) ==
  PixelClamp(x, y, c, RawNoise(a, noiseFn, c), bgRgb)

\* one iteration of the loop body: the pixel written, or the throw
PixelAt(a, noiseFn, wx, wy, bgRgb, x, y) ==
  PixelFrom(a, noiseFn, bgRgb, x, y, SampleCoord(a, wx, wy, x, y))

\* the two nested for loops from offset idx on; written holds the pixels
\* written so far, in row-major order, and px is the iteration at idx
RECURSIVE PixelLoop(_, _, _, _, _, _, _)
PixelNext(a, noiseFn, wx, wy, bgRgb, idx, written, px) ==
  IF px.thrown THEN [thrown |-> TRUE, pixels |-> written]
  ELSE PixelLoop(a, noiseFn, wx, wy, bgRgb, idx + 1, Append(written, px))

PixelLoop(a, noiseFn, wx, wy, bgRgb, idx, written) ==
  IF idx >= a.width * a.height THEN [thrown |-> FALSE, pixels |-> written]
  ELSE PixelNext(a, noiseFn, wx, wy, bgRgb, idx, written,
                 PixelAt(a, noiseFn, wx, wy, bgRgb, idx % a.width, idx \div a.width))

getActiveNoiseFunctionDistinct(noiseType, seed, width, height, prior) ==
  CASE noiseType = "Simplex" -> getSimplexNoiseFn(seed, prior)
    [] noiseType = "WhiteNoise" -> getWhiteNoiseFn(seed, width, height, prior)
    [] noiseType \in {"Value", "Cellular"} -> getBasicValueNoiseFn(seed, DefaultGridSize, prior)
    [] OTHER -> getSimplexNoiseFn(seed, prior)

getActiveNoiseFunction(noiseType, seed, width, height, prior) ==
  CASE noiseType = "Simplex" -> getSimplexNoiseFn(seed, prior)
    [] noiseType = "WhiteNoise" -> getWhiteNoiseFn(seed, width, height, prior)
    [] noiseType = "Value" -> getBasicValueNoiseFn(seed, DefaultGridSize, prior)
    [] OTHER -> getSimplexNoiseFn(seed, prior)

\* canvas.toDataURL(mimeType, quality): the runtime encodes as PNG when it has
\* no codec for the requested type; PNG takes no quality (undefined)
ToDataURL(pixels, width, height, imageFormat, quality, codecs) ==
  LET format == IF imageFormat \in codecs THEN imageFormat ELSE "png"
  IN  [kind |-> "url", mime |-> format,
       quality |-> IF imageFormat = "png" \/ format = "png" THEN Undefined ELSE quality,
       width |-> width, height |-> height,
       data |-> [i \in 1..Len(pixels) |->
                   <<pixels[i].r, pixels[i].g, pixels[i].b, pixels[i].alpha>>]]

Closure(k) == [kind |-> "closure", s |-> k.s]

\* how the promise settles once the pixel loops have ended: an exception in
\* the executor rejects, otherwise the canvas is encoded and the URL resolves
SettleSwallow(a, env, loop, after) ==
  [status |-> "resolved",
   url |-> ToDataURL(loop.pixels, a.width, a.height, a.imageFormat, a.quality,
                     env.codecs),
   kernels |-> 3, pixels |-> loop.pixels, heap |-> after]

Settle(a, env, loop, after) ==
  IF loop.thrown
    THEN [status |-> "rejected", message |-> "Cannot read properties of undefined",
          kernels |-> 3, pixels |-> loop.pixels, heap |-> after]
    ELSE [status |-> "resolved",
          url |-> ToDataURL(loop.pixels, a.width, a.height, a.imageFormat, a.quality,
                            env.codecs),
          kernels |-> 3, pixels |-> loop.pixels, heap |-> after]

\* the executor once the three kernels are built
Render(a, env, bgRgb, noiseFn, wx, wy) ==
  Settle(a, env, PixelLoop(a, noiseFn, wx, wy, bgRgb, 0, <<>>), Closure(wy))

\* domainWrapNoiseY = getSimplexNoiseFn(seed + 200)
WithWarpY(a, env, bgRgb, noiseFn, wx) ==
  Render(a, env, bgRgb, noiseFn, wx, getSimplexNoiseFn(a.seed + 200, Closure(wx)))

\* domainWrapNoiseX = getSimplexNoiseFn(seed + 100)
WithWarpXMainSeed(a, env, bgRgb, noiseFn) ==
  WithWarpY(a, env, bgRgb, noiseFn, getSimplexNoiseFn(a.seed, Closure(noiseFn)))

WithWarpX(a, env, bgRgb, noiseFn) ==
  WithWarpY(a, env, bgRgb, noiseFn, getSimplexNoiseFn(a.seed + 100, Closure(noiseFn)))

\* the executor once the background color is parsed
WithColor(a, env, prior, bgRgb) ==
  IF bgRgb = None
    THEN [status |-> "rejected", message |-> "Invalid background color format.",
          kernels |-> 0, pixels |-> <<>>, heap |-> prior]
    ELSE WithWarpX(a, env, bgRgb,
                   getActiveNoiseFunction(a.noiseType, a.seed, a.width, a.height, prior))

\* generateNoiseImage(a) in the runtime env, with `prior` the generator state
\* left by earlier calls: the settled promise, the pixels written and the
\* generator state it leaves
generateNoiseImageNoContextCheck(a, env, prior) ==
  WithColor(a, env, prior, hexToRgb(a.backgroundColor))

generateNoiseImage(a, env, prior) ==
  IF ~env.ctx
    THEN [status |-> "rejected", message |-> "Could not get canvas context",
          kernels |-> 0, pixels |-> <<>>, heap |-> prior]
    ELSE WithColor(a, env, prior, hexToRgb(a.backgroundColor))

-----------------------------------------------------------------------------
(* Component state after construction *)

DEFAULT_WIDTH == 512
DEFAULT_HEIGHT == 512
DEFAULT_FREQUENCY == Rat(2, 100)
DEFAULT_AMPLITUDE == Num(1)
DEFAULT_NOISE_TYPE == "Simplex"
DEFAULT_FRACTAL_TYPE == "FBM"
DEFAULT_DOMAIN_WRAP == FALSE
DEFAULT_OCTAVES == 4
DEFAULT_PERSISTENCE == Rat(1, 2)
DEFAULT_LACUNARITY == Num(2)
DEFAULT_IMAGE_FORMAT == "png"
DEFAULT_BACKGROUND_COLOR == <<"#", "0", "0", "0", "0", "0", "0">>
DEFAULT_QUALITY == 90

\* the useState initial values, DEFAULT_SEED being the module-load draw seed0
DefaultParams(seed0) ==
  [width |-> DEFAULT_WIDTH, height |-> DEFAULT_HEIGHT, seed |-> seed0,
   frequency |-> DEFAULT_FREQUENCY, amplitude |-> DEFAULT_AMPLITUDE,
   noiseType |-> DEFAULT_NOISE_TYPE, fractalType |-> DEFAULT_FRACTAL_TYPE,
   domainWrap |-> DEFAULT_DOMAIN_WRAP, octaves |-> DEFAULT_OCTAVES,
   persistence |-> DEFAULT_PERSISTENCE, lacunarity |-> DEFAULT_LACUNARITY,
   imageFormat |-> DEFAULT_IMAGE_FORMAT, backgroundColor |-> DEFAULT_BACKGROUND_COLOR,
   quality |-> DEFAULT_QUALITY]

\* everything but the parameters
ComponentRest(seed0) ==
  /\ initialMountSeedRef = seed0
  /\ generatedImageUrl = None
  /\ isLoading = FALSE
  /\ error = Null
  /\ pending = None
  /\ last = None
  /\ heap = None
  /\ steps = 0

ComponentInit(seed0) ==
  /\ params = DefaultParams(seed0)
  /\ ComponentRest(seed0)

-----------------------------------------------------------------------------
(* handleGenerateNoise.  The handler runs up to its await in one step: the
   promise executor of generateNoiseImage is synchronous, so the promise is
   already settled when the handler suspends.  The code after the await runs
   as a microtask, before any other event. *)

WidthHeightMessage == "Width and Height must be positive numbers."
OctavesMessage == "Octaves must be a positive number for fractal noise types."

\* the two early returns: the message set, or Null when the request goes on
ValidationMessageNoOctaves(p) ==
  IF p.width <= 0 \/ p.height <= 0 THEN WidthHeightMessage ELSE Null

ValidationMessage(p) ==
  IF p.width <= 0 \/ p.height <= 0 THEN WidthHeightMessage
  ELSE IF p.fractalType # "None" /\ p.octaves <= 0 THEN OctavesMessage
  ELSE Null

\* the object literal passed to generateNoiseImage
GenerateArgsRaw(p) == [p EXCEPT !.quality = Rat(p.quality, 100)]

GenerateArgsPercent(p) ==
  [p EXCEPT !.quality = Num(p.quality),
            !.octaves = IF p.fractalType = "None" THEN 1 ELSE p.octaves]

GenerateArgs(p) ==
  [p EXCEPT !.quality = Rat(p.quality, 100),
            !.octaves = IF p.fractalType = "None" THEN 1 ELSE p.octaves]

AllFormats == {"png", "jpeg", "webp"}
Envs == {[ctx |-> TRUE, codecs |-> AllFormats],
         [ctx |-> TRUE, codecs |-> {"png", "jpeg"}],
         [ctx |-> FALSE, codecs |-> AllFormats]}

Promise(r) ==
  [kind |-> "promise", status |-> r.status,
   url |-> IF r.status = "resolved" THEN r.url ELSE None,
   message |-> IF r.status = "resolved" THEN Null ELSE r.message]

handleGenerateNoise(env) ==
  /\ pending = None
  /\ IF ValidationMessage(params) # Null
       THEN /\ error' = ValidationMessage(params)
            /\ last' = [kind |-> "invalid", urlBefore |-> generatedImageUrl]
            /\ UNCHANGED <<isLoading, pending, heap>>
       ELSE \E r \in {generateNoiseImage(GenerateArgs(params), env, heap)} :
              /\ isLoading' = TRUE
              /\ error' = Null
              /\ pending' = Promise(r)
              /\ last' = [kind |-> "request", args |-> GenerateArgs(params),
                          env |-> env, status |-> r.status, kernels |-> r.kernels,
                          pixels |-> r.pixels, prior |-> heap,
                          urlBefore |-> generatedImageUrl, done |-> FALSE]
              /\ heap' = r.heap
  /\ UNCHANGED <<params, generatedImageUrl, initialMountSeedRef,
                 gens, whiteK, valueK, fractalK>>

\* the code after the await: setGeneratedImageUrl, or the catch block, and
\* the finally block
resumeAfterAwaitNoFinally ==
  /\ pending # None
  /\ IF pending.status = "resolved"
       THEN /\ generatedImageUrl' = pending.url
            /\ isLoading' = FALSE
            /\ UNCHANGED error
       ELSE /\ error' = pending.message
            /\ UNCHANGED <<generatedImageUrl, isLoading>>
  /\ pending' = None
  /\ last' = [last EXCEPT !.done = TRUE]
  /\ UNCHANGED <<params, heap, initialMountSeedRef, gens, whiteK, valueK, fractalK>>

resumeAfterAwait ==
  /\ pending # None
  /\ IF pending.status = "resolved"
       THEN /\ generatedImageUrl' = pending.url
            /\ UNCHANGED error
       ELSE /\ error' = pending.message
            /\ UNCHANGED generatedImageUrl
  /\ isLoading' = FALSE
  /\ pending' = None
  /\ last' = [last EXCEPT !.done = TRUE]
  /\ UNCHANGED <<params, heap, initialMountSeedRef, gens, whiteK, valueK, fractalK>>

\* isDefaultSettings and isResetDisabled
isResetDisabled ==
  generatedImageUrl = None /\ params = DefaultParams(initialMountSeedRef)

\* the seventeen setters of handleReset
handleReset ==
  /\ pending = None
  /\ params' = DefaultParams(initialMountSeedRef)
  /\ generatedImageUrl' = None
  /\ isLoading' = FALSE
  /\ error' = Null
  /\ last' = [kind |-> "reset"]
  /\ UNCHANGED <<pending, heap, initialMountSeedRef, gens, whiteK, valueK, fractalK>>

-----------------------------------------------------------------------------
(* The engine driven by any caller: the component state is set to any
   parameter values, valid or not, one at a time, and the handler is invoked
   in any runtime environment *)

MaxDim == 2
MaxSteps == 3
InitialSeeds == {42}

\* the values a caller sets, next to the initial ones
EngineValues ==
  [width |-> {0},
   height |-> {-1},
   seed |-> {-7},
   noiseType |-> {"WhiteNoise", "Value"},
   fractalType |-> {"None"},
   domainWrap |-> {TRUE},
   octaves |-> {0},
   persistence |-> {Num(1)},
   imageFormat |-> {"webp"},
   backgroundColor |-> {<<"r", "e", "d">>}]

EngineInit ==
  /\ \E seed0 \in InitialSeeds :
       /\ params = [DefaultParams(seed0) EXCEPT !.width = MaxDim, !.height = MaxDim]
       /\ ComponentRest(seed0)
  /\ gens = [g \in {"main", "warpX", "warpY"} |-> [seed |-> 0, s |-> 0, k |-> 0, out |-> NaN]]
  /\ whiteK = None
  /\ valueK = None
  /\ fractalK = None

\* the caller sets one parameter
SetParameter(field, value) ==
  /\ pending = None
  /\ steps < MaxSteps
  /\ params[field] # value
  /\ params' = [params EXCEPT ![field] = value]
  /\ steps' = steps + 1
  /\ UNCHANGED <<generatedImageUrl, isLoading, error, pending, last, heap,
                 initialMountSeedRef, gens, whiteK, valueK, fractalK>>

\* the caller invokes the handler (on images of at most MaxDim x MaxDim)
Generate(env) ==
  /\ steps < MaxSteps
  /\ params.width <= MaxDim /\ params.height <= MaxDim
  /\ handleGenerateNoise(env)
  /\ steps' = steps + 1

\* the caller starts over
Reset ==
  /\ steps < MaxSteps
  /\ ~isResetDisabled
  /\ handleReset
  /\ steps' = steps + 1

\* the handler resumes after its await
Resume ==
  /\ resumeAfterAwait
  /\ UNCHANGED steps

EngineNext ==
  \/ \E field \in DOMAIN EngineValues : \E value \in EngineValues[field] :
       SetParameter(field, value)
  \/ \E env \in Envs : Generate(env)
  \/ Resume
  \/ Reset

EngineSpec == EngineInit /\ [][EngineNext]_vars

\* C1: a request made after earlier requests writes the same pixels, and
\* settles the same way, as a first call with the same arguments
C1_SameBufferAfterEarlierCalls ==
  (last.kind = "request" /\ last.prior # None /\ ~last.done) =>
    \A first \in {generateNoiseImage(last.args, last.env, None)} :
      /\ first.status = last.status
      /\ first.pixels = last.pixels
      /\ pending.url = (IF first.status = "resolved" THEN first.url ELSE None)

\* a request that follows a request which built kernels, and wrote every pixel
C1_Witness ==
  /\ last.kind = "request"
  /\ last.prior # None
  /\ ~last.done
  /\ last.status = "resolved"
  /\ Len(last.pixels) = last.args.width * last.args.height

\* C2: in every request, the noise value of every pixel written is a number
\* in [0,1] after the final clamp
C2_NoiseValInUnit ==
  last.kind = "request" =>
    \A i \in 1..Len(last.pixels) : InUnit(last.pixels[i].noiseVal)

C3_Invalid ==
  \/ params.width <= 0
  \/ params.height <= 0
  \/ (params.fractalType # "None" /\ params.octaves <= 0)

\* C3: with width <= 0, height <= 0, or a fractal type and octaves <= 0, the
\* handler sets an error message and returns: no call of generateNoiseImage
\* (no promise, no kernel built), isLoading stays false, the image stays
C3_InvalidInputRejected ==
  [][\A env \in Envs :
       (C3_Invalid /\ handleGenerateNoise(env)) =>
         /\ error' \in {WidthHeightMessage, OctavesMessage}
         /\ isLoading = FALSE /\ isLoading' = FALSE
         /\ generatedImageUrl' = generatedImageUrl
         /\ pending' = None
         /\ heap' = heap
         /\ last'.kind = "invalid"]_vars

\* the handler has rejected octaves = 0 while an image was on display
C3_Witness ==
  /\ last.kind = "invalid"
  /\ error = OctavesMessage
  /\ generatedImageUrl # None
  /\ ~isLoading

\* C4: a request that passed validation and has run to its end has either set
\* generatedImageUrl to the encoding of a buffer with all width x height
\* pixels written (error null), or set error and left generatedImageUrl as it
\* was before the request
C4_ExactlyOneOutcome ==
  (last.kind = "request" /\ last.done) =>
    \/ /\ last.status = "resolved"
       /\ error = Null
       /\ generatedImageUrl.kind = "url"
       /\ Len(last.pixels) = last.args.width * last.args.height
       /\ generatedImageUrl.data =
            [i \in 1..Len(last.pixels) |->
               <<last.pixels[i].r, last.pixels[i].g, last.pixels[i].b, 255>>]
    \/ /\ last.status = "rejected"
       /\ error # Null
       /\ generatedImageUrl = last.urlBefore

\* a request that faulted part-way through the pixel loop
C4_Witness ==
  /\ last.kind = "request"
  /\ last.done
  /\ last.status = "rejected"
  /\ Len(last.pixels) > 0
  /\ Len(last.pixels) < last.args.width * last.args.height
  /\ error # Null

-----------------------------------------------------------------------------
(* Generator probe: the three closures generateNoiseImage creates, with their
   next() calls interleaved in every order *)

MaxDraws == 4
ProbeSeeds == {-1000000000, -7, 0, 42, 233322, 999999999}
GenNames == {"main", "warpX", "warpY"}

NewGen(seed) == [seed |-> seed, s |-> createSeededRandom(seed, None), k |-> 0, out |-> NaN]

\* one call of the closure g: it advances its own s and returns s / 233280
DrawShared(gs, g) ==
  LET s1 == LcgStep(gs[g].s)
  IN  [h \in DOMAIN gs |->
         IF h = g
           THEN [seed |-> gs[h].seed, s |-> s1, k |-> gs[h].k + 1, out |-> RandValue(s1)]
           ELSE [gs[h] EXCEPT !.s = s1]]

Draw(gs, g) ==
  LET s1 == LcgStep(gs[g].s)
  IN  [gs EXCEPT ![g] = [seed |-> gs[g].seed, s |-> s1, k |-> gs[g].k + 1,
                         out |-> RandValue(s1)]]

IdleGens == [g \in GenNames |-> NewGen(0)]

PrngInit ==
  /\ ComponentInit(0)
  /\ \E seed \in ProbeSeeds :
       gens = [g \in GenNames |->
                 NewGen(CASE g = "main" -> seed [] g = "warpX" -> seed + 100
                          [] g = "warpY" -> seed + 200)]
  /\ whiteK = None
  /\ valueK = None
  /\ fractalK = None

RandNext(g) ==
  /\ gens[g].k < MaxDraws
  /\ gens' = Draw(gens, g)
  /\ UNCHANGED <<uiVars, whiteK, valueK, fractalK>>

PrngNext == \E g \in GenNames : RandNext(g)

PrngSpec == PrngInit /\ [][PrngNext]_vars

\* iterates of the recurrence taken with the mathematical (never negative) modulus
RECURSIVE IterateMath(_, _)
IterateMath(s, k) == IF k = 0 THEN s ELSE IterateMath(LcgMath(s), k - 1)

\* C5: every value a generator returns lies in [0, 1), for every 32-bit seed,
\* negative ones included.
C5_RandomInUnitInterval ==
  \A g \in GenNames :
    gens[g].k > 0 =>
      /\ IsFinite(gens[g].out)
      /\ gens[g].out.n >= 0
      /\ gens[g].out.n < gens[g].out.d

\* C6: whatever the interleaving, the k-th value of a generator is the k-th
\* iterate of s <- (s*9301 + 49297) % 233280 from its own seed, over 233280
\* (for a seed >= 0 the % is the mathematical modulus).
C6_GeneratorsIndependent ==
  \A g \in GenNames :
    /\ gens[g].s = Iterate(gens[g].seed, gens[g].k)
    /\ gens[g].k > 0 => gens[g].out = Rat(Iterate(gens[g].seed, gens[g].k), Modulus)
    /\ gens[g].seed >= 0 => gens[g].s = IterateMath(gens[g].seed, gens[g].k)

C6_Witness ==
  /\ gens["main"].k = 2
  /\ gens["warpX"].k = 3
  /\ gens["warpY"].k = 1

-----------------------------------------------------------------------------
(* White kernel probe: one closure, evaluated at any coordinates *)

KernelSeeds == {-7, 0, 42, 999999999}
WhiteCoordSteps == 4
WhiteCoords == {Rat(u, WhiteCoordSteps) : u \in -1..(WhiteCoordSteps + 1)}

WhiteInit ==
  /\ ComponentInit(0)
  /\ gens = IdleGens
  /\ \E seed \in KernelSeeds, w \in 1..MaxDim, h \in 1..MaxDim :
       whiteK = [kind |-> "white", seed |-> seed,
                 kernel |-> getWhiteNoiseFn(seed, w, h, None), cur |-> None]
  /\ valueK = None
  /\ fractalK = None

WhiteProbe(x, y) ==
  /\ whiteK' = [whiteK EXCEPT !.cur = [kind |-> "eval", x |-> x, y |-> y,
                                       index |-> WhiteIndex(whiteK.kernel, x, y),
                                       out |-> WhiteEvaluate(whiteK.kernel, x, y)]]
  /\ UNCHANGED <<uiVars, gens, valueK, fractalK>>

WhiteNext == \E x \in WhiteCoords, y \in WhiteCoords : WhiteProbe(x, y)

WhiteSpec == WhiteInit /\ [][WhiteNext]_vars

\* C7: every value a White kernel returns lies in [-1, 1], whatever the seed,
\* and the table stays the one built at construction.
C7_WhiteInRange ==
  whiteK.kind = "white" =>
    /\ whiteK.kernel.noiseMap
         = getWhiteNoiseFn(whiteK.seed, whiteK.kernel.width, whiteK.kernel.height,
                           None).noiseMap
    /\ whiteK.cur # None => InSigned(whiteK.cur.out)

-----------------------------------------------------------------------------
(* Value kernel probe: one closure with the default gridSize, evaluated at
   grid-aligned and half-cell coordinates; the two latest evaluations are kept *)

ValueSeeds == {0, 42, 999999999}
ValueXUnits == {-2, 0, 1, 32, 34, 35}
ValueYUnits == {-2, 0, 35}
ValueCoord(u) == Rat(u, 2 * DefaultGridSize)

ValueEval(k, x, y) ==
  [kind |-> "eval", x |-> x, y |-> y, corners |-> ValueCorners(k, x, y),
   result |-> ValueEvaluate(k, x, y)]

ValueInit ==
  /\ ComponentInit(0)
  /\ gens = IdleGens
  /\ whiteK = None
  /\ \E seed \in ValueSeeds :
       valueK = [kind |-> "value", seed |-> seed,
                 kernel |-> getBasicValueNoiseFn(seed, DefaultGridSize, None),
                 prev |-> None, cur |-> None]
  /\ fractalK = None

ValueProbe(x, y) ==
  /\ valueK' = [valueK EXCEPT !.prev = valueK.cur,
                              !.cur = ValueEval(valueK.kernel, x, y)]
  /\ UNCHANGED <<uiVars, gens, whiteK, fractalK>>

ValueNext ==
  \E u \in ValueXUnits, w \in ValueYUnits : ValueProbe(ValueCoord(u), ValueCoord(w))

ValueSpec == ValueInit /\ [][ValueNext]_vars

\* C8: at every coordinate, negative ones and ones beyond 1 included, the four
\* corner indices lie in [0, gridSize] and evaluate returns a number in [-1, 1].
C8_ValueIndicesInGrid ==
  valueK.kind = "value" /\ valueK.cur # None =>
    /\ \A f \in {"x0", "x1", "y0", "y1"} :
         0 <= valueK.cur.corners[f] /\ valueK.cur.corners[f] <= valueK.kernel.gridSize
    /\ ~valueK.cur.result.thrown
    /\ InSigned(valueK.cur.result.v)

\* C9 as stated: evaluate(x + 1, y) references the same corner entries as
\* evaluate(x, y), so the kernel has period 1.
C9_PeriodOne ==
  (/\ valueK.kind = "value" /\ valueK.prev # None /\ valueK.cur # None
   /\ valueK.prev.y = valueK.cur.y
   /\ valueK.cur.x = Add(valueK.prev.x, Num(1))
   /\ Le(Num(0), valueK.prev.x) /\ Le(Num(0), valueK.prev.y))
  => valueK.cur.corners = valueK.prev.corners

\* C9 as amended: the wrap modulo gridSize + 1 gives the period
\* (gridSize + 1) / gridSize: at non-negative grid-aligned and half-cell
\* coordinates evaluate(x + 17/16, y) references the same corner entries as
\* evaluate(x, y) and returns the same value, while evaluate(1, 0) reads
\* values[16][0] and evaluate(0, 0) reads values[0][0].
C9_PeriodGridPlusOne ==
  /\ (/\ valueK.kind = "value" /\ valueK.prev # None /\ valueK.cur # None
      /\ valueK.prev.y = valueK.cur.y
      /\ valueK.cur.x = Add(valueK.prev.x, Rat(DefaultGridSize + 1, DefaultGridSize))
      /\ Le(Num(0), valueK.prev.x) /\ Le(Num(0), valueK.prev.y))
     => /\ valueK.cur.corners = valueK.prev.corners
        /\ valueK.cur.result = valueK.prev.result
  /\ (/\ valueK.kind = "value" /\ valueK.cur # None
      /\ valueK.cur.x = Num(1) /\ valueK.cur.y = Num(0))
     => /\ valueK.cur.corners.x0 = DefaultGridSize
        /\ valueK.cur.corners.y0 = 0
        /\ valueK.cur.result.v
             = Sub(Mul(GridValue(valueK.kernel, DefaultGridSize, 0), Num(2)), Num(1))

C9_Witness ==
  /\ valueK.kind = "value" /\ valueK.prev # None /\ valueK.cur # None
  /\ valueK.prev.x = Num(0) /\ valueK.prev.y = Num(0)
  /\ valueK.cur.x = Rat(DefaultGridSize + 1, DefaultGridSize) /\ valueK.cur.y = Num(0)
  /\ valueK.cur.corners.x0 = 0
  /\ ~valueK.cur.result.thrown

-----------------------------------------------------------------------------
(* Fractal transform probe: the switch of applyFractalNoise applied to one
   kernel output v *)

TransformSteps == 10
TransformInputs == {Rat(u, TransformSteps) : u \in (-TransformSteps)..TransformSteps}

FractalInit ==
  /\ ComponentInit(0)
  /\ gens = IdleGens
  /\ whiteK = None
  /\ valueK = None
  /\ fractalK = [kind |-> "idle"]

TransformProbe(v, type) ==
  /\ fractalK' = [kind |-> "transform", type |-> type, v |-> v,
                  out |-> FractalTransform(v, type)]
  /\ UNCHANGED <<uiVars, gens, whiteK, valueK>>

FractalNext == \E v \in TransformInputs, type \in FractalTypes : TransformProbe(v, type)

FractalSpec == FractalInit /\ [][FractalNext]_vars

\* the table of the specification, section 4.4, on v = n/d
TableClamp(a) == IF Lt(a, Num(-1)) THEN Num(-1) ELSE IF Lt(Num(1), a) THEN Num(1) ELSE a
TableValue(v, type) ==
  LET av == Rat(AbsI(v.n), v.d)
  IN  CASE type \in {"None", "FBM"} -> v
        [] type = "Billow" -> Rat(2 * av.n - av.d, av.d)
        [] type = "Ridged" -> Rat(av.d - av.n, av.d)
        [] type = "Turbulence" -> av
        [] type = "IQ" -> TableClamp(Rat(4 * av.d - (10 * av.n + av.d),
                                         2 * (10 * av.n + av.d)))

\* C10: each fractal type transforms v as the table states, and maps [-1, 1]
\* into [-1, 1].
C10_TransformTable ==
  fractalK.kind = "transform" =>
    /\ fractalK.out = TableValue(fractalK.v, fractalK.type)
    /\ InSigned(fractalK.v) => InSigned(fractalK.out)

C10_Witness ==
  /\ fractalK.kind = "transform"
  /\ fractalK.type = "IQ"
  /\ fractalK.v = Rat(4, 10)
  /\ fractalK.out = Rat(-1, 10)

-----------------------------------------------------------------------------
(* One request from any parameter set: the component holds the parameters the
   caller chose and the handler is invoked once, in any runtime environment *)

RenderSeeds == {-7, 42}
RenderNoiseTypes == {"Simplex", "WhiteNoise", "Value", "Perlin", "Worley", "Cellular", "Gabor"}
RenderOctaves == {-1, 0, 1, 3}
RenderPersistences == {Rat(1, 2), Num(1)}
RenderFrequency == Rat(1, 2)
RenderColor == <<"#", "f", "8", "0">>
RenderSizes == {<<1, 1>>, <<1, MaxDim>>, <<MaxDim, MaxDim>>}

RenderInit ==
  /\ \E noiseType \in RenderNoiseTypes, fractalType \in FractalTypes,
        octaves \in RenderOctaves, persistence \in RenderPersistences,
        domainWrap \in BOOLEAN, size \in RenderSizes, seed0 \in RenderSeeds :
       /\ seed0 >= 0 \/ size = <<1, 1>>   \* negative seeds on one pixel only
       /\ params = [DefaultParams(seed0) EXCEPT
                     !.width = size[1], !.height = size[2],
                     !.frequency = RenderFrequency, !.noiseType = noiseType,
                     !.fractalType = fractalType, !.octaves = octaves,
                     !.persistence = persistence, !.domainWrap = domainWrap,
                     !.backgroundColor = RenderColor]
       /\ ComponentRest(seed0)
  /\ gens = IdleGens
  /\ whiteK = None
  /\ valueK = None
  /\ fractalK = None

RenderNext ==
  \/ \E env \in Envs : last = None /\ Generate(env)
  \/ Resume

RenderSpec == RenderInit /\ [][RenderNext]_vars

\* the final clamp of line 258 applied to v
C11_Clamp(v) == MathMax(Num(0), MathMin(Num(1), v))

\* (v * amplitude + amplitude) / (2 * amplitude)
C11_Map(v, amplitude) == Div(Add(Mul(v, amplitude), amplitude), Mul(Num(2), amplitude))

C11_Octaves == {-1, 0, 4}

\* C11: with fractalType = None every pixel written takes exactly one kernel
\* evaluation v, at the sample coordinate times frequency, and its noise value
\* is the clamp of (v*amplitude + amplitude)/(2*amplitude); the handler passes
\* validation whatever octaves is, and generateNoiseImage called with any other
\* octaves value (0 and negative ones included) writes the same buffer and
\* settles the same way
C11_NoneIgnoresOctaves ==
  (last.kind = "request" /\ ~last.done /\ last.args.fractalType = "None" /\ last.env.ctx) =>
    /\ \A k \in {getActiveNoiseFunction(last.args.noiseType, last.args.seed,
                                        last.args.width, last.args.height, None)} :
         \A i \in 1..Len(last.pixels) :
           /\ last.pixels[i].evals = 1
           /\ last.pixels[i].noiseVal =
                C11_Clamp(C11_Map(KernelEval(k, Mul(last.pixels[i].nx, last.args.frequency),
                                             Mul(last.pixels[i].ny, last.args.frequency)).v,
                                  last.args.amplitude))
    /\ \A o \in C11_Octaves :
         \A other \in {generateNoiseImage([last.args EXCEPT !.octaves = o], last.env, None)} :
           /\ other.status = last.status
           /\ other.pixels = last.pixels

\* the caller asked for octaves = 0 with fractalType None and every pixel was
\* written, one of them with a noise value strictly inside (0, 1)
C11_Witness ==
  /\ last.kind = "request" /\ ~last.done
  /\ last.args.fractalType = "None"
  /\ params.octaves = 0
  /\ last.status = "resolved"
  /\ Len(last.pixels) = last.args.width * last.args.height
  /\ \E i \in 1..Len(last.pixels) :
       /\ Lt(Num(0), last.pixels[i].noiseVal)
       /\ Lt(last.pixels[i].noiseVal, Num(1))
       /\ last.pixels[i].noiseVal # Rat(1, 2)

\* the RGBA bytes of the pixels written
C12_Buffer(pixels) ==
  [i \in 1..Len(pixels) |-> <<pixels[i].r, pixels[i].g, pixels[i].b, pixels[i].alpha>>]

\* a request with the warp on, in a runtime that has a canvas
C12_Warped == last.kind = "request" /\ ~last.done /\ last.env.ctx /\ last.args.domainWrap

\* the same request with the warp off
C12_Plain == generateNoiseImage([last.args EXCEPT !.domainWrap = FALSE], last.env, None)

C12_PixelMoved(px, plain, i, ox, oy) ==
  /\ (px.nx # Rat(px.x, last.args.width)) <=> (ox # Num(0))
  /\ (px.ny # Rat(px.y, last.args.height)) <=> (oy # Num(0))
  /\ (i <= Len(plain.pixels) /\ C12_Buffer(plain.pixels)[i] # C12_Buffer(last.pixels)[i])
       => (ox # Num(0) \/ oy # Num(0))

C13_Seeds == {-7, 0, 42, 999999999}

\* C13: for every label other than 'WhiteNoise' and 'Value' ('Perlin',
\* 'Worley', 'Cellular' and an unrecognised one included) the kernel selected
\* is the Gradient kernel built from the same seed as for 'Simplex', and the
\* request writes the same pixels and settles with the same image as the
\* request with noiseType 'Simplex'
C13_AliasesAreSimplex ==
  (last.kind = "request" /\ ~last.done /\ last.env.ctx
     /\ last.args.noiseType \notin {"WhiteNoise", "Value"}) =>
    /\ \A seed \in C13_Seeds \cup {last.args.seed} :
         getActiveNoiseFunction(last.args.noiseType, seed, last.args.width,
                                last.args.height, None)
           = getSimplexNoiseFn(seed, None)
    /\ \A simplex \in {generateNoiseImage([last.args EXCEPT !.noiseType = "Simplex"],
                                          last.env, None)} :
         /\ simplex.status = last.status
         /\ simplex.pixels = last.pixels
         /\ pending.url = (IF simplex.status = "resolved" THEN simplex.url ELSE None)

\* a request with an aliased label and one with an unrecognised label wrote a
\* full buffer that is not flat
C13_Witness ==
  /\ last.kind = "request" /\ ~last.done
  /\ last.args.noiseType \in {"Cellular", "Gabor"}
  /\ last.status = "resolved"
  /\ Len(last.pixels) = last.args.width * last.args.height
  /\ \E i \in 1..Len(last.pixels) : last.pixels[i].noiseVal # last.pixels[1].noiseVal

\* C14: a request for an output format the runtime has no codec for ends with
\* an error and without an image (in particular without an image encoded in
\* another format)
C14_UnsupportedFormatFails ==
  (last.kind = "request" /\ last.done /\ last.env.ctx
     /\ last.args.imageFormat \notin last.env.codecs) =>
    /\ last.status = "rejected"
    /\ error # Null
    /\ generatedImageUrl = last.urlBefore

\* the engine with its scheduling: the continuation of an await on a settled
\* promise is a microtask, which the event loop runs before any later event
EngineLive == EngineSpec /\ WF_vars(Resume)

\* C15: every request that has run to its end has left isLoading false, with
\* error null after a success and set after a failure, until the next call of
\* the handler or of handleReset (a rejected input leaves isLoading false and
\* error set too); the continuation of a request only stores the outcome (it
\* builds no kernel, makes no new promise and is no caller operation), a
\* promise is only ever made by a caller operation, and every request made
\* does run to its end
C15_RequestsEndOnce ==
  /\ []((last.kind = "request" /\ last.done) =>
          /\ ~isLoading
          /\ pending = None
          /\ (last.status = "resolved" => error = Null)
          /\ (last.status = "rejected" => error # Null))
  /\ [](last.kind = "invalid" => (~isLoading /\ error # Null))
  /\ [][pending # None =>
          /\ pending' = None
          /\ ~isLoading'
          /\ heap' = heap
          /\ steps' = steps
          /\ last' = [last EXCEPT !.done = TRUE]]_vars
  /\ [][(pending = None /\ pending' # None) => steps' = steps + 1]_vars
  /\ (pending # None) ~> (pending = None /\ ~isLoading)

\* a failed request that followed a successful one has run to its end
C15_Witness ==
  /\ last.kind = "request"
  /\ last.done
  /\ last.status = "rejected"
  /\ last.urlBefore # None
  /\ ~isLoading
  /\ error # Null

\* floor(y * height) * width + floor(x * width) on the integers, for finite x, y
C16_Index(k, x, y) ==
  ((y.n * k.height) \div y.d) * k.width + ((x.n * k.width) \div x.d)

\* what the claim lets evaluate return for the index idx
C16_Expected(k, idx) ==
  IF idx < 0 \/ idx >= k.width * k.height THEN Num(0) ELSE k.noiseMap[idx + 1]

\* C16: at every finite coordinate, inside [0, 1) or not, evaluate returns 0
\* when floor(y*height)*width + floor(x*width) lies outside [0, width*height)
\* and the table entry at that index otherwise; the result is a number, never
\* undefined
C16_WhiteBoundsChecked ==
  (whiteK.kind = "white" /\ whiteK.cur # None) =>
    /\ Len(whiteK.kernel.noiseMap) = whiteK.kernel.width * whiteK.kernel.height
    /\ whiteK.cur.index = Num(C16_Index(whiteK.kernel, whiteK.cur.x, whiteK.cur.y))
    /\ whiteK.cur.out
         = C16_Expected(whiteK.kernel, C16_Index(whiteK.kernel, whiteK.cur.x, whiteK.cur.y))
    /\ IsFinite(whiteK.cur.out)

\* evaluate(1, 1): the index is width * height + width, one row past the table
C16_Witness ==
  /\ whiteK.kind = "white"
  /\ whiteK.cur # None
  /\ whiteK.cur.x = Num(1) /\ whiteK.cur.y = Num(1)
  /\ whiteK.cur.index
       = Num(whiteK.kernel.width * whiteK.kernel.height + whiteK.kernel.width)
  /\ whiteK.cur.out = Num(0)
  /\ whiteK.kernel.noiseMap[1] # Num(0)

\* b to the power i
RECURSIVE C17_Pow(_, _)
C17_Pow(b, i) == IF i = 0 THEN Num(1) ELSE Mul(C17_Pow(b, i - 1), b)

\* the contribution of octave i at the sample coordinate of px: the transformed
\* kernel value at (x*frequency*lacunarity^i, y*frequency*lacunarity^i) times
\* amplitude*persistence^i
C17_Octave(k, a, px, i) ==
  Mul(FractalTransform(
        KernelEval(k, Mul(px.nx, Mul(a.frequency, C17_Pow(a.lacunarity, i))),
                   Mul(px.ny, Mul(a.frequency, C17_Pow(a.lacunarity, i)))).v,
        a.fractalType),
      Mul(a.amplitude, C17_Pow(a.persistence, i)))

\* the sum of the first n octaves
RECURSIVE C17_Total(_, _, _, _)
C17_Total(k, a, px, n) ==
  IF n = 0 THEN Num(0)
  ELSE Add(C17_Total(k, a, px, n - 1), C17_Octave(k, a, px, n - 1))

\* (total + amplitude/(1-persistence)) / (2*amplitude/(1-persistence))
C17_Normalize(total, a) ==
  Div(Add(total, Div(a.amplitude, Sub(Num(1), a.persistence))),
      Div(Mul(Num(2), a.amplitude), Sub(Num(1), a.persistence)))

\* C17: with a fractal type other than None every pixel written takes exactly
\* `octaves` kernel evaluations, octave i at the sample coordinate times
\* frequency*lacunarity^i and weighted by amplitude*persistence^i, and its
\* noise value is Math.max(0, Math.min(1, .)) of
\* (total + amplitude/(1-persistence)) / (2*amplitude/(1-persistence))
C17_OctaveSum ==
  (last.kind = "request" /\ ~last.done /\ last.env.ctx /\ last.args.fractalType # "None") =>
    \A k \in {getActiveNoiseFunction(last.args.noiseType, last.args.seed,
                                     last.args.width, last.args.height, None)} :
      \A i \in 1..Len(last.pixels) :
        /\ last.pixels[i].evals = last.args.octaves
        /\ last.pixels[i].noiseVal =
             C11_Clamp(C17_Normalize(C17_Total(k, last.args, last.pixels[i],
                                               last.args.octaves),
                                     last.args))

\* three octaves of the IQ transform over a Value kernel, every pixel written,
\* one of them with a noise value strictly inside (0, 1)
C17_Witness ==
  /\ last.kind = "request" /\ ~last.done
  /\ last.args.fractalType = "IQ"
  /\ last.args.noiseType = "Value"
  /\ last.args.octaves = 3
  /\ last.status = "resolved"
  /\ Len(last.pixels) = last.args.width * last.args.height
  /\ \E i \in 1..Len(last.pixels) :
       /\ last.pixels[i].evals = 3
       /\ Lt(Num(0), last.pixels[i].noiseVal)
       /\ Lt(last.pixels[i].noiseVal, Num(1))

\* C18: whenever the handler has called generateNoiseImage, the octaves it
\* passed is at least 1: it is 1 when fractalType is None, whatever the
\* component's octaves, and the component's octaves, which passed the check
\* octaves > 0, otherwise
C18_OctavesAtLeastOne ==
  /\ pending # None =>
       /\ last.kind = "request"
       /\ last.args.octaves =
            (IF params.fractalType = "None" THEN 1 ELSE params.octaves)
       /\ params.fractalType # "None" => params.octaves > 0
  /\ last.kind = "request" => last.args.octaves >= 1

\* the component holds octaves = -1 and fractalType None; the call got 1
C18_Witness ==
  /\ pending # None
  /\ params.fractalType = "None"
  /\ params.octaves = -1
  /\ last.args.octaves = 1
  /\ last.status = "resolved"

\* the coordinate the claim gives pixel px: (px/width, py/height), moved by
\* 0.05 * W(5nx, 5ny) per axis when domainWrap is set, wx and wy being the
\* permutation tables of the two warp kernels
C19_Coord(a, wx, wy, px) ==
  IF a.domainWrap
    THEN [nx |-> Add(Rat(px.x, a.width),
                     Mul(Rat(5, 100),
                         noise2D(wx, Mul(Num(5), Rat(px.x, a.width)),
                                 Mul(Num(5), Rat(px.y, a.height))))),
          ny |-> Add(Rat(px.y, a.height),
                     Mul(Rat(5, 100),
                         noise2D(wy, Mul(Num(5), Rat(px.x, a.width)),
                                 Mul(Num(5), Rat(px.y, a.height)))))]
    ELSE [nx |-> Rat(px.x, a.width), ny |-> Rat(px.y, a.height)]

\* C19: the coordinate fed to the noise pipeline for pixel (px, py) is
\* (px/width, py/height) without the warp, and with it
\* (nx + 0.05*Wx(5nx, 5ny), ny + 0.05*Wy(5nx, 5ny)) for the Gradient kernels Wx
\* and Wy seeded seed+100 and seed+200; the pixel's noise value is the one the
\* pipeline gives at that coordinate, which it multiplies by frequency itself
C19_SampleCoordinate ==
  (last.kind = "request" /\ ~last.done /\ last.env.ctx) =>
    \A k \in {getActiveNoiseFunction(last.args.noiseType, last.args.seed,
                                     last.args.width, last.args.height, None)},
       wx \in {getSimplexNoiseFn(last.args.seed + 100, None)},
       wy \in {getSimplexNoiseFn(last.args.seed + 200, None)} :
      \A i \in 1..Len(last.pixels) :
        \A c \in {C19_Coord(last.args, wx.perm, wy.perm, last.pixels[i])} :
          /\ last.pixels[i].nx = c.nx
          /\ last.pixels[i].ny = c.ny
          /\ last.pixels[i].noiseVal = C11_Clamp(RawNoise(last.args, k, c).v)

\* a warped request wrote every pixel, one of them moved along both axes
C19_Witness ==
  /\ last.kind = "request" /\ ~last.done
  /\ last.args.domainWrap
  /\ last.status = "resolved"
  /\ Len(last.pixels) = last.args.width * last.args.height
  /\ \E i \in 1..Len(last.pixels) :
       /\ last.pixels[i].nx # Rat(last.pixels[i].x, last.args.width)
       /\ last.pixels[i].ny # Rat(last.pixels[i].y, last.args.height)

\* the byte stored for channel ch of the pixel px
C20_Stored(px, ch) == CASE ch = "r" -> px.r [] ch = "g" -> px.g [] ch = "b" -> px.b

\* C20: for every pixel written, each of R, G and B is
\* floor(bg*(1-noiseVal) + 255*noiseVal) for the parsed background channel bg,
\* an integer in [bg, 255], equal to bg when noiseVal = 0 and to 255 when
\* noiseVal = 1
C20_ChannelsOnRamp ==
  (last.kind = "request" /\ ~last.done /\ last.env.ctx) =>
    \A bg \in {hexToRgb(last.args.backgroundColor)} :
      \A i \in 1..Len(last.pixels), ch \in {"r", "g", "b"} :
        /\ Num(C20_Stored(last.pixels[i], ch))
             = MathFloor(Add(Mul(Num(bg[ch]), Sub(Num(1), last.pixels[i].noiseVal)),
                             Mul(Num(255), last.pixels[i].noiseVal)))
        /\ bg[ch] <= C20_Stored(last.pixels[i], ch)
        /\ C20_Stored(last.pixels[i], ch) <= 255
        /\ last.pixels[i].noiseVal = Num(0) => C20_Stored(last.pixels[i], ch) = bg[ch]
        /\ last.pixels[i].noiseVal = Num(1) => C20_Stored(last.pixels[i], ch) = 255

\* C21: for positive width and height the pixel loop of a request ends after
\* exactly width*height iterations, the i-th of them having written pixel
\* (x, y) with y*width + x = i, alpha 255, and the buffer handed to the encoder
\* is that one
C21_LoopWritesEveryPixel ==
  (last.kind = "request" /\ ~last.done /\ last.env.ctx) =>
    /\ Len(last.pixels) = last.args.width * last.args.height
    /\ \A i \in 1..Len(last.pixels) :
         /\ last.pixels[i].y * last.args.width + last.pixels[i].x = i - 1
         /\ last.pixels[i].x \in 0..(last.args.width - 1)
         /\ last.pixels[i].alpha = 255
    /\ last.status = "resolved"
    /\ pending.url.data = C12_Buffer(last.pixels)

C23_ContextMessage == "Could not get canvas context"

\* C23: when the 2D context cannot be obtained the promise rejects with the
\* context error before any kernel is constructed or pixel computed (the
\* generator state is the one before the call), and the handler ends with
\* that error set, isLoading false and generatedImageUrl as before the call
C23_NoContextRejectsFirst ==
  (last.kind = "request" /\ ~last.env.ctx) =>
    /\ last.status = "rejected"
    /\ last.kernels = 0
    /\ last.pixels = <<>>
    /\ heap = last.prior
    /\ ~last.done => (pending.status = "rejected" /\ pending.message = C23_ContextMessage)
    /\ last.done =>
         (error = C23_ContextMessage /\ ~isLoading /\ generatedImageUrl = last.urlBefore)

C23_Witness ==
  /\ last.kind = "request" /\ ~last.env.ctx /\ last.done
  /\ last.urlBefore # None
  /\ error = C23_ContextMessage

-----------------------------------------------------------------------------
(* The noiseMap loop of getWhiteNoiseFn on the default width, followed row by
   row through more than one period of the generator *)

PeriodSeeds == {42, 999999999}
PeriodRows == Modulus \div DEFAULT_WIDTH + MaxDraws

PeriodInit ==
  /\ ComponentInit(0)
  /\ gens = IdleGens
  /\ \E seed \in PeriodSeeds :
       whiteK = [kind |-> "table", seed |-> seed, rows |-> 0, row |-> <<>>,
                 s |-> createSeededRandom(seed, None)]
  /\ valueK = None
  /\ fractalK = None

\* the next DEFAULT_WIDTH iterations of  noiseMap[i] = rand() * 2 - 1 : row
\* holds the generator states behind the entries
PeriodStep ==
  /\ whiteK.rows < PeriodRows
  /\ \E ds \in {Draws(whiteK.s, DEFAULT_WIDTH)} :
       whiteK' = [whiteK EXCEPT !.rows = @ + 1, !.row = ds, !.s = ds[DEFAULT_WIDTH]]
  /\ UNCHANGED <<uiVars, gens, valueK, fractalK>>

PeriodSpec == PeriodInit /\ [][PeriodStep]_vars

\* the number of the draw behind entry j of the row just filled
C28_Draw(j) == (whiteK.rows - 1) * DEFAULT_WIDTH + j

C28_Holds(first, head) ==
  \A j \in 1..Len(whiteK.row) :
    /\ whiteK.row[j] \in 0..(Modulus - 1)
    /\ (1 < C28_Draw(j) /\ C28_Draw(j) <= Modulus) => whiteK.row[j] # first
    /\ (Modulus < C28_Draw(j) /\ C28_Draw(j) <= Modulus + DEFAULT_WIDTH) =>
         whiteK.row[j] = head[C28_Draw(j) - Modulus]

\* C28: for a non-negative seed the state after draw 1 does not come back
\* before draw 233281 and does come back there, so that the first 233280
\* states are pairwise different (a state met twice among them would bring
\* the first one back early) and draw k + 233280 repeats draw k: entry
\* k + 233280 of a White table equals entry k
C28_FullPeriod ==
  C28_Holds(LcgStep(whiteK.seed), Draws(whiteK.seed, DEFAULT_WIDTH))

C28_Witness ==
  /\ whiteK.rows * DEFAULT_WIDTH > Modulus
  /\ \E j \in 1..DEFAULT_WIDTH :
       /\ C28_Draw(j) = Modulus + 1
       /\ whiteK.row[j] = LcgStep(whiteK.seed)
       /\ RandValue(whiteK.row[j]) = RandValue(Draws(whiteK.seed, 1)[1])

\* column floor(x*width) of a probe
C29_Column(k, x) == (x.n * k.width) \div x.d

\* C29: whenever evaluate returns a stored table entry (the index passed the
\* bounds check), the column floor(x*width) lies in [0, width), so that the
\* entry is the one of row floor(y*height) and no other row
C29_EntryFromOwnRow ==
  (whiteK.kind = "white" /\ whiteK.cur # None
     /\ 0 <= whiteK.cur.index.n /\ whiteK.cur.index.n < Len(whiteK.kernel.noiseMap)) =>
    /\ C29_Column(whiteK.kernel, whiteK.cur.x) \in 0..(whiteK.kernel.width - 1)
    /\ whiteK.cur.index.n \div whiteK.kernel.width
         = (whiteK.cur.y.n * whiteK.kernel.height) \div whiteK.cur.y.d

\* floor((bg + 255) / 2)
C26_Half(bg) == (bg + 255) \div 2

\* the channels of a pixel stay out of the darker half (compared where the
\* number model computes bg*(1 - v) + 255*v without rounding)
C26_Bright(px, bg) ==
  MulFits(255, px.noiseVal.d) =>
    /\ px.r >= C26_Half(bg.r)
    /\ px.g >= C26_Half(bg.g)
    /\ px.b >= C26_Half(bg.b)

\* C26: with fractalType Ridged or Turbulence and persistence < 1 every pixel
\* written has a noise value of at least 1/2 and every color channel is at
\* least floor((bg + 255) / 2)
C26_BrightHalfOnly ==
  (last.kind = "request" /\ ~last.done /\ last.env.ctx
     /\ last.args.fractalType \in {"Ridged", "Turbulence"}
     /\ Lt(last.args.persistence, Num(1))) =>
    \A bg \in {hexToRgb(last.args.backgroundColor)} :
      \A i \in 1..Len(last.pixels) :
        /\ Le(Rat(1, 2), last.pixels[i].noiseVal)
        /\ C26_Bright(last.pixels[i], bg)

C25_Amplitudes == {Num(3)}

\* the request repeated with amplitude b
C25_Again(b) ==
  generateNoiseImage([last.args EXCEPT !.amplitude = b], last.env, last.prior)

\* equal, or both finite and no further apart than the rounding of the
\* number model allows
C25_Rounding == Rat(4, Q)
C25_Close(u, v) ==
  \/ u = v
  \/ IsFinite(u) /\ IsFinite(v) /\ Le(MathAbs(Sub(u, v)), C25_Rounding)

C25_Same(r, pixels) ==
  /\ r.status = last.status
  /\ Len(r.pixels) = Len(pixels)
  /\ \A i \in 1..Len(pixels) : C25_Close(r.pixels[i].noiseVal, pixels[i].noiseVal)

\* C25: a request repeated with another positive amplitude, everything else
\* equal, settles the same way and gives every pixel the same noise value (up
\* to rounding), on the None path and on the fractal path
C25_AmplitudeIndependent ==
  (last.kind = "request" /\ ~last.done /\ last.env.ctx) =>
    \A b \in C25_Amplitudes : C25_Same(C25_Again(b), last.pixels)

C25_Witness ==
  /\ last.kind = "request" /\ ~last.done
  /\ last.status = "resolved"
  /\ last.args.fractalType = "FBM" /\ last.args.octaves = 3
  /\ last.args.amplitude = Num(1)
  /\ Len(last.pixels) = MaxDim * MaxDim
  /\ \E i \in 1..Len(last.pixels) :
       /\ Lt(Num(0), last.pixels[i].noiseVal)
       /\ Lt(last.pixels[i].noiseVal, Num(1))
       /\ last.pixels[i].noiseVal # Rat(1, 2)

\* multiples of the modulus added to the seed: up to the last congruent seed
\* below 1000000000
C27_Shifts == {999999999 \div Modulus}

\* the request repeated with the seed moved by j moduli
C27_Again(j) ==
  generateNoiseImage([last.args EXCEPT !.seed = @ + j * Modulus], last.env, last.prior)

C27_Same(r) ==
  /\ r.status = last.status
  /\ r.pixels = last.pixels
  /\ r.status = "resolved" => r.url = pending.url

\* C27: two non-negative seeds congruent modulo 233280 give the same sequence
\* of generator states, and a request repeated with a congruent seed settles
\* the same way with the same pixels and the same encoded image, for every
\* noise type
C27_CongruentSeedsSameImage ==
  (last.kind = "request" /\ ~last.done /\ last.env.ctx /\ last.args.seed >= 0) =>
    \A j \in C27_Shifts :
      /\ Draws(last.args.seed + j * Modulus, MaxDraws) = Draws(last.args.seed, MaxDraws)
      /\ C27_Same(C27_Again(j))

C27_Witness ==
  /\ last.kind = "request" /\ ~last.done
  /\ last.status = "resolved"
  /\ last.args.seed >= 0
  /\ last.args.noiseType = "WhiteNoise"
  /\ last.args.domainWrap
  /\ Len(last.pixels) = MaxDim * MaxDim
  /\ \E i \in 1..Len(last.pixels) :
       /\ Lt(Num(0), last.pixels[i].noiseVal)
       /\ Lt(last.pixels[i].noiseVal, Num(1))

-----------------------------------------------------------------------------
(* The panel driven through its controls: every parameter value is the one an
   onChange handler stores, the buttons are pressed only while enabled.  The
   run starts after MaxDim has been typed into both dimension inputs. *)

\* the value of a decimal digit, -1 for any other character
DigitValue(c) ==
  LET digits == <<"0", "1", "2", "3", "4", "5", "6", "7", "8", "9">>
  IN  IF \E d \in 0..9 : digits[d + 1] = c
        THEN CHOOSE d \in 0..9 : digits[d + 1] = c
        ELSE -1

\* the number read from the digits of text from position i on, after acc
RECURSIVE ParseDigits(_, _, _)
ParseDigits(text, i, acc) ==
  IF i > Len(text) \/ DigitValue(text[i]) < 0 THEN acc
  ELSE ParseDigits(text, i + 1, acc * 10 + DigitValue(text[i]))

\* parseInt(text, 10): an optional sign and the longest run of digits, NaN
\* when there is no digit
parseInt(text) ==
  LET start == IF Len(text) > 0 /\ text[1] \in {"-", "+"} THEN 2 ELSE 1
  IN  IF start > Len(text) \/ DigitValue(text[start]) < 0 THEN NaN
      ELSE IF text[1] = "-" THEN Num(-ParseDigits(text, start, 0))
      ELSE Num(ParseDigits(text, start, 0))

\* v || 0 on the result of parseInt
OrZero(v) == IF IsNaN(v) THEN 0 ELSE v.n

\* onChange of the width and height inputs
DimensionOnChangeNoFloor(text) == MinI(2048, OrZero(parseInt(text)))

DimensionOnChange(text) == MaxI(1, MinI(2048, OrZero(parseInt(text))))

\* onChange of the seed input
SeedOnChange(text) == OrZero(parseInt(text))

\* the Randomize button, random being the value of Math.random()
randomizeSeed(random) ==
  SetParameter("seed", MathFloor(Mul(random, Num(1000000000))).n)

isGenerateDisabled ==
  \/ params.width <= 0 \/ params.height <= 0
  \/ (params.fractalType # "None" /\ params.octaves <= 0)
  \/ isLoading

\* downloadImage(generatedImageUrl, `noise_${seed}.${imageFormat}`); shown is
\* the latest request or reset of the panel
handleDownload ==
  /\ generatedImageUrl # None
  /\ last' = [kind |-> "download", url |-> generatedImageUrl,
              name |-> [seed |-> params.seed, format |-> params.imageFormat],
              shown |-> IF last.kind = "download" THEN last.shown ELSE last]
  /\ UNCHANGED <<params, generatedImageUrl, isLoading, error, pending, heap,
                 initialMountSeedRef, gens, whiteK, valueK, fractalK>>

\* the texts typed into the number inputs, the values of Math.random() and
\* the positions of the quality slider
UITexts == {<<>>, <<"-", "5">>, <<"7", ".", "5">>, <<"9", "9", "9", "9">>}
UIRandoms == {Rat(1, 4)}
UISliderTexts == {<<"1">>, <<"1", "0", "0">>}

UINext ==
  \/ \E text \in UITexts : SetParameter("width", DimensionOnChange(text))
  \/ \E text \in UITexts : SetParameter("height", DimensionOnChange(text))
  \/ \E text \in UITexts : SetParameter("seed", SeedOnChange(text))
  \/ \E random \in UIRandoms : randomizeSeed(random)
  \/ \E format \in AllFormats : SetParameter("imageFormat", format)
  \/ \E text \in UISliderTexts :
       params.imageFormat # "png" /\ SetParameter("quality", parseInt(text).n)
  \/ \E env \in Envs : ~isGenerateDisabled /\ Generate(env)
  \/ Resume
  \/ Reset
  \/ steps < MaxSteps /\ ~isLoading /\ handleDownload /\ steps' = steps + 1

UISpec == EngineInit /\ [][UINext]_vars

\* C22: the quality handed to generateNoiseImage is the panel's quality
\* divided by 100, a number in [0, 1] after any edits and resets; the encoder
\* receives it for JPEG and WEBP and receives no quality for PNG
C22_QualityArgument ==
  /\ params.quality \in 1..100
  /\ (last.kind = "request" /\ ~last.done) =>
       /\ last.args.quality = Rat(params.quality, 100)
       /\ InUnit(last.args.quality)
       /\ (last.status = "resolved" /\ last.args.imageFormat = "png") =>
            pending.url.quality = Undefined
       /\ (last.status = "resolved" /\ last.args.imageFormat # "png"
             /\ last.args.imageFormat \in last.env.codecs) =>
            pending.url.quality = last.args.quality

C22_Witness ==
  /\ last.kind = "request" /\ ~last.done
  /\ last.status = "resolved"
  /\ last.args.imageFormat = "jpeg"
  /\ params.quality = 100
  /\ pending.url.quality = Num(1)

\* C24: after any edits of the width and height inputs and any resets, both
\* are integers in [1, 2048], and the handler never reports the dimension
\* error
C24_DimensionsInRange ==
  /\ params.width \in 1..2048
  /\ params.height \in 1..2048
  /\ ValidationMessageNoOctaves(params) = Null
  /\ error # WidthHeightMessage

\* the empty text was typed into the width input (it is stored as 1) and the
\* handler then ran
C24_Witness ==
  /\ DimensionOnChange(<<>>) = 1
  /\ last.kind = "request"
  /\ last.args.width = 1
  /\ last.status = "resolved"

\* C30: the file name handleDownload uses carries the seed and the format of
\* the request that produced the displayed image
C30_NameMatchesImage ==
  (last.kind = "download" /\ last.shown.kind = "request"
     /\ last.shown.status = "resolved") =>
    /\ last.url = generatedImageUrl
    /\ last.name.seed = last.shown.args.seed
    /\ last.name.format = last.shown.args.imageFormat

====
